---------------------------- MODULE Spec2Model ----------------------------
(***************************************************************************)
(* A model of yogasamsu/youtube_research:                                  *)
(*   src/1_search_ids.py     _get, search_and_save_ids                     *)
(*   src/2_fetch_details.py  _get, chunked, to_int, get_video_details,     *)
(*                           klasifikasi_konten_dengan_tag                 *)
(*                                                                         *)
(* The specifications share the module's variables; each runs one part of *)
(* the program and leaves the variables of the other parts at their        *)
(* initial values:                                                         *)
(*   SpecGet        one call of _get, both copies fed the same upstream    *)
(*   SpecCollector  search_and_save_ids (FairCollector adds progress)      *)
(*   SpecBatcher    get_video_details                                      *)
(*   SpecToInt      to_int                                                 *)
(*   SpecStages     either stage, from its entry                           *)
(*   SpecRow        the record get_video_details appends for one item      *)
(*   SpecClassify   klasifikasi_konten_dengan_tag, applied row by row      *)
(***************************************************************************)
EXTENDS Integers, Sequences, FiniteSets, TLC

VARIABLES
    \* ---- one call of _get, per copy (SpecGet) ----
    hist,        \* the upstream outcomes of the attempts made so far
    fpc,         \* [Sites -> "loop" | "returned" | "raised"]
    fattempt,    \* [Sites -> the for loop's attempt index]
    requests,    \* [Sites -> number of requests.get calls issued]
    sleeps,      \* [Sites -> the time.sleep durations, in order]
    fresult      \* [Sites -> what the call returned or raised]

VARIABLES
    \* ---- search_and_save_ids (SpecCollector) ----
    max_results,     \* args.max_results
    found_ids,       \* the set found_ids
    next_token,      \* next_token
    page_token,      \* params["pageToken"], None while the key is not set
    cpc,             \* "while" | "get" | "write" | "done" | "error"
    cattempt,        \* attempt, inside the call of _get in progress
    output_file,     \* the lines written to args.output_file
    page_items,      \* every item seen in a fetched page (history)
    last_response,   \* whether a page has been fetched, and its token (history)
    last_request     \* the circumstances of the latest request (history)

getVars == <<hist, fpc, fattempt, requests, sleeps, fresult>>
colVars == <<max_results, found_ids, next_token, page_token, cpc, cattempt,
             output_file, page_items, last_response, last_request>>

VARIABLES
    \* ---- get_video_details (SpecBatcher) ----
    video_ids,       \* the argument video_ids
    gen_pos,         \* the generator chunked(video_ids, 50): its place in video_ids
    batch,           \* batch, the group the generator yielded last
    batch_no,        \* the number of batches whose body has been run
    bpc,             \* "for" | "get" | "done" | "error"
    battempt,        \* attempt, inside the call of _get in progress
    rows,            \* rows
    row_batch,       \* for each row, the batch it came from (history)
    calls,           \* the batch of every call of _get, in order (history)
    responses,       \* the items of every body _get returned (history)
    details          \* main's details, once get_video_details has returned

VARIABLES
    \* ---- to_int(st.get(field)) (SpecToInt) ----
    st,              \* the statistics object of an item
    field,           \* "viewCount" | "likeCount" | "commentCount"
    tpc,             \* "call" | "done"
    extracted        \* what to_int returned or raised

VARIABLES
    \* ---- the record of one item (SpecRow) ----
    it,              \* the item of the response: it
    rpc,             \* "item" | "appended" | "raised"
    made             \* the record appended for it, or the exception raised

VARIABLES
    \* ---- df.apply(klasifikasi_konten_dengan_tag, axis=1) (SpecClassify) ----
    df,              \* the rows of the DataFrame
    kpos,            \* the row apply calls the classifier on next
    content_tags     \* the labels returned so far, row by row

batVars == <<video_ids, gen_pos, batch, batch_no, bpc, battempt, rows, row_batch,
             calls, responses, details>>
intVars == <<st, field, tpc, extracted>>

rowVars == <<it, rpc, made>>
klaVars == <<df, kpos, content_tags>>

vars == <<getVars, colVars, batVars, intVars, rowVars, klaVars>>

-----------------------------------------------------------------------------
(* The upstream as _get sees it                                            *)

None == "None"

\* _get(url, params, max_retries=5, backoff=1.6): the callers pass neither.
max_retries == 5

\* The two copies of _get: 1 is 1_search_ids.py, 2 is 2_fetch_details.py.
Sites == {1, 2}

\* What one requests.get can produce: a response with a status code, or a
\* requests.exceptions.RequestException raised by the transport.
Statuses == {200, 204, 400, 403, 404, 429, 500, 503}
NetworkErrors == {"Timeout"}
Outcomes ==
    [exc : {None}, status : Statuses] \cup [exc : NetworkErrors, status : {0}]

Response(code) == [exc |-> None, status |-> code]
NetworkError(e) == [exc |-> e, status |-> 0]

RECURSIVE Pow(_, _)
Pow(b, e) == IF e = 0 THEN 1 ELSE b * Pow(b, e - 1)

\* int(backoff ** attempt) + 1 with backoff = 1.6 = 16/10; the power is
\* positive, so int() is the floor.
BackoffSleep_Linear(attempt) == attempt + 2

BackoffSleep(attempt) == (Pow(16, attempt) \div Pow(10, attempt)) + 1

\* r.raise_for_status(): raises HTTPError for the 4xx and 5xx codes, returns
\* for every other code.
RaiseForStatus(code) == IF code >= 400 /\ code < 600 THEN "HTTPError" ELSE None

\* except requests.exceptions.RequestException: HTTPError and the transport
\* errors are subclasses of it.
IsRequestException_OnlyHTTPError(e) == e = "HTTPError"

IsRequestException(e) == e \in NetworkErrors \cup {"HTTPError"}

\* The body of the try statement for one outcome of requests.get: what the
\* loop does next ("return", "continue" or "propagate") and the sleep taken
\* first (0: none).
TryBody(o, attempt, retryable) ==
    LET raised == IF o.exc # None THEN o.exc
                  ELSE IF o.status = 200 \/ o.status \in retryable THEN None
                  ELSE RaiseForStatus(o.status)
    IN  IF raised # None
        THEN IF IsRequestException(raised)
             THEN [next |-> "continue", sleep |-> BackoffSleep(attempt)]
             ELSE [next |-> "propagate", sleep |-> 0]
        ELSE IF o.status = 200 THEN [next |-> "return", sleep |-> 0]
        ELSE IF o.status \in retryable
             THEN [next |-> "continue", sleep |-> BackoffSleep(attempt)]
        ELSE [next |-> "continue", sleep |-> 0]

\* 1_search_ids.py, _get: one iteration of the for loop.
GetAttempt1(o, attempt) == TryBody(o, attempt, {403, 429, 500, 503})

\* 2_fetch_details.py, _get: one iteration of the for loop.
GetAttempt2_ReturnsOnAny2xx(o, attempt) ==
    IF o.exc = None /\ o.status >= 200 /\ o.status < 300
    THEN [next |-> "return", sleep |-> 0]
    ELSE TryBody(o, attempt, {403, 429, 500, 503})

GetAttempt2(o, attempt) == TryBody(o, attempt, {403, 429, 500, 503})

GetAttempt(s, o, attempt) ==
    IF s = 1 THEN GetAttempt1(o, attempt) ELSE GetAttempt2(o, attempt)

\* What a call of _get ends with: the JSON body of the response to its k-th
\* request, or an exception (k: the status code of an HTTPError, else 0).
NoResult == [kind |-> None, k |-> 0]
Body(k) == [kind |-> "body", k |-> k]
HTTPError(code) == [kind |-> "HTTPError", k |-> code]
RuntimeError == [kind |-> "RuntimeError", k |-> 0]

-----------------------------------------------------------------------------
(* SpecGet: one call of _get in each copy, both fed the same outcomes      *)

Running(s) == fpc[s] = "loop" /\ fattempt[s] < max_retries

\* for attempt in range(max_retries): one iteration, in every copy that is
\* still in its loop, on the outcome o of this request.
GetRequest(o) ==
    /\ \E s \in Sites : Running(s)
    /\ hist' = Append(hist, o)
    /\ LET a(s) == GetAttempt(s, o, fattempt[s])
       IN  /\ fpc' = [s \in Sites |->
                        IF ~Running(s) THEN fpc[s]
                        ELSE IF a(s).next = "return" THEN "returned"
                        ELSE IF a(s).next = "propagate" THEN "raised"
                        ELSE "loop"]
           /\ fattempt' = [s \in Sites |->
                        IF Running(s) /\ a(s).next = "continue"
                        THEN fattempt[s] + 1 ELSE fattempt[s]]
           /\ requests' = [s \in Sites |->
                        IF Running(s) THEN requests[s] + 1 ELSE requests[s]]
           /\ sleeps' = [s \in Sites |->
                        IF Running(s) /\ a(s).sleep > 0
                        THEN Append(sleeps[s], a(s).sleep) ELSE sleeps[s]]
           /\ fresult' = [s \in Sites |->
                        IF ~Running(s) THEN fresult[s]
                        ELSE IF a(s).next = "return" THEN Body(Len(hist) + 1)
                        ELSE IF a(s).next = "propagate"
                             THEN (IF o.exc # None THEN [kind |-> o.exc, k |-> 0]
                                   ELSE HTTPError(o.status))
                        ELSE fresult[s]]
    /\ UNCHANGED <<colVars, batVars, intVars, rowVars, klaVars>>

\* The for loop is exhausted: raise RuntimeError(...).
GetExhausted ==
    /\ \E s \in Sites : fpc[s] = "loop" /\ fattempt[s] = max_retries
    /\ fpc' = [s \in Sites |->
                 IF fpc[s] = "loop" /\ fattempt[s] = max_retries
                 THEN "raised" ELSE fpc[s]]
    /\ fresult' = [s \in Sites |->
                 IF fpc[s] = "loop" /\ fattempt[s] = max_retries
                 THEN RuntimeError ELSE fresult[s]]
    /\ UNCHANGED <<hist, fattempt, requests, sleeps>>
    /\ UNCHANGED <<colVars, batVars, intVars, rowVars, klaVars>>

-----------------------------------------------------------------------------
(* search_and_save_ids                                                     *)

\* Bounds of the search endpoint's behaviour and of the command line.
MaxTarget == 3
MaxVideoId == 3
MaxPageItems == 2

\* item.get("id", {}).get("videoId"): 0 stands for an item without one.
VideoIds == 1..MaxVideoId
NoVideoId == 0
ItemIds == VideoIds \cup {NoVideoId}

\* data.get("nextPageToken"): None when the response carries none.
Tokens == {"t1", "t2"}

SeqsUpTo(S, n) == UNION {[1..k -> S] : k \in 0..n}

\* The JSON bodies the search endpoint can answer a page request with.
Pages == [items : SeqsUpTo(ItemIds, MaxPageItems), nextPageToken : Tokens \cup {None}]

\* The bodies that can come with outcome o: only the body of a 200 is read.
NoPage == [items |-> <<>>, nextPageToken |-> None]
PagesWith(o) == IF o = Response(200) THEN Pages ELSE {NoPage}

Min(a, b) == IF a <= b THEN a ELSE b
Max(a, b) == IF a >= b THEN a ELSE b

\* Python's seq[:n].
PySlice_NoTruncation(seq, n) == seq

PySlice(seq, n) ==
    IF n >= 0 THEN SubSeq(seq, 1, Min(n, Len(seq)))
    ELSE SubSeq(seq, 1, Max(Len(seq) + n, 0))

\* list(a_set): the elements once each, in an order the set decides.
ListsOf(S) ==
    {q \in [1..Cardinality(S) -> S] : \A i, j \in 1..Cardinality(S) : q[i] = q[j] => i = j}

\* for item in data.get("items", []): if video_id: found_ids.add(video_id)
AddItems_FirstOnly(found, items) ==
    IF items # <<>> /\ items[1] # NoVideoId THEN found \cup {items[1]} ELSE found

AddItems(found, items) ==
    found \cup {items[i] : i \in {j \in 1..Len(items) : items[j] # NoVideoId}}

\* while len(found_ids) < args.max_results:
WhileCondition_OffByOne(found, target) == Cardinality(found) <= target

WhileCondition(found, target) == Cardinality(found) < target

\* The loop test, and up to the call of _get: if next_token: params["pageToken"] = ...
ColWhile_TokenNeverSent ==
    /\ cpc = "while"
    /\ IF WhileCondition(found_ids, max_results)
       THEN /\ cpc' = "get"
            /\ cattempt' = 0
       ELSE /\ cpc' = "write"
            /\ UNCHANGED cattempt
    /\ UNCHANGED <<max_results, found_ids, next_token, page_token, output_file,
                   page_items, last_response, last_request>>
    /\ UNCHANGED <<getVars, batVars, intVars, rowVars, klaVars>>

ColWhile ==
    /\ cpc = "while"
    /\ IF WhileCondition(found_ids, max_results)
       THEN /\ cpc' = "get"
            /\ cattempt' = 0
            /\ page_token' = IF next_token # None THEN next_token ELSE page_token
       ELSE /\ cpc' = "write"
            /\ UNCHANGED <<cattempt, page_token>>
    /\ UNCHANGED <<max_results, found_ids, next_token, output_file, page_items,
                   last_response, last_request>>
    /\ UNCHANGED <<getVars, batVars, intVars, rowVars, klaVars>>

\* One iteration of _get's loop inside data = _get(url, params), on the
\* outcome o; on a return, the rest of the while body on the page returned.
ColRequest(o, data) ==
    /\ cpc = "get"
    /\ cattempt < max_retries
    /\ last_request' = [issued |-> TRUE, found |-> Cardinality(found_ids),
                        after_response |-> last_response.fetched,
                        prev_token |-> last_response.token,
                        page_token |-> page_token]
    /\ LET a == GetAttempt1(o, cattempt)
       IN  CASE a.next = "return" ->
                  /\ found_ids' = AddItems(found_ids, data.items)
                  /\ next_token' = data.nextPageToken
                  /\ cpc' = IF data.nextPageToken = None THEN "write" ELSE "while"
                  /\ page_items' = page_items \cup {data.items[i] : i \in 1..Len(data.items)}
                  /\ last_response' = [fetched |-> TRUE, token |-> data.nextPageToken]
                  /\ UNCHANGED cattempt
             [] a.next = "continue" ->
                  /\ cattempt' = cattempt + 1
                  /\ UNCHANGED <<found_ids, next_token, cpc, page_items, last_response>>
             [] OTHER ->
                  /\ cpc' = "error"
                  /\ UNCHANGED <<found_ids, next_token, cattempt, page_items, last_response>>
    /\ UNCHANGED <<max_results, page_token, output_file>>
    /\ UNCHANGED <<getVars, batVars, intVars, rowVars, klaVars>>

\* _get's loop is exhausted: RuntimeError, which search_and_save_ids and
\* main do not catch.
ColExhausted ==
    /\ cpc = "get"
    /\ cattempt = max_retries
    /\ cpc' = "error"
    /\ UNCHANGED <<max_results, found_ids, next_token, page_token, cattempt,
                   output_file, page_items, last_response, last_request>>
    /\ UNCHANGED <<getVars, batVars, intVars, rowVars, klaVars>>

\* for vid in list(found_ids)[:args.max_results]: f.write(...)
ColWrite ==
    /\ cpc = "write"
    /\ \E order \in ListsOf(found_ids) : output_file' = PySlice(order, max_results)
    /\ cpc' = "done"
    /\ UNCHANGED <<max_results, found_ids, next_token, page_token, cattempt,
                   page_items, last_response, last_request>>
    /\ UNCHANGED <<getVars, batVars, intVars, rowVars, klaVars>>

-----------------------------------------------------------------------------
(* chunked, to_int, get_video_details                                      *)

\* chunked(video_ids, 50)
batch_size == 50

\* Bound of the input: video_ids has at most MaxIds entries.
MaxIds == 120

\* def chunked(iterable, n): the generator runs from position pos of the
\* iterable, with buf as it stands, up to its next yield or to its end.
RECURSIVE Chunked_DropsPartial(_, _, _, _)
Chunked_DropsPartial(iterable, n, pos, buf) ==
    IF pos > Len(iterable)
    THEN [yielded |-> FALSE, buf |-> <<>>, pos |-> pos]
    ELSE LET b == Append(buf, iterable[pos])
         IN  IF Len(b) = n
             THEN [yielded |-> TRUE, buf |-> b, pos |-> pos + 1]
             ELSE Chunked_DropsPartial(iterable, n, pos + 1, b)

RECURSIVE Chunked(_, _, _, _)
Chunked(iterable, n, pos, buf) ==
    IF pos > Len(iterable)
    THEN IF buf # <<>>
         THEN [yielded |-> TRUE, buf |-> buf, pos |-> pos]
         ELSE [yielded |-> FALSE, buf |-> <<>>, pos |-> pos]
    ELSE LET b == Append(buf, iterable[pos])
         IN  IF Len(b) = n
             THEN [yielded |-> TRUE, buf |-> b, pos |-> pos + 1]
             ELSE Chunked(iterable, n, pos + 1, b)

\* The inputs: n identifiers that repeat with period p (p >= n: no repeats).
Periods == {1, batch_size, MaxIds + 1}
Inputs ==
    {[i \in 1..n |-> ((i - 1) % p) + 1] : n \in 0..MaxIds, p \in Periods}

\* The videos endpoint: one item for each distinct requested identifier that
\* is still available, in request order. Which are available is the
\* upstream's choice, per call.
Keeps == {"all", "none", "odd"}

Available(id, keep) ==
    CASE keep = "all" -> TRUE
      [] keep = "none" -> FALSE
      [] OTHER -> id % 2 = 1

\* data.get("items", []) of the body answering the request for ids_req.
UpstreamItems(ids_req, keep) ==
    LET Answered(i) ==
            /\ \A j \in 1..(i - 1) : ids_req[j] # ids_req[i]
            /\ Available(ids_req[i], keep)
        at == SelectSeq([i \in 1..Len(ids_req) |-> i], Answered)
    IN  [k \in 1..Len(at) |-> [id |-> ids_req[at[k]]]]

\* for it in data.get("items", []): rows.append({"videoId": it.get("id"), ...})
BatchRows_PerRequestedId(ids_req, items) ==
    [i \in 1..Len(ids_req) |-> [videoId |-> ids_req[i]]]

BatchRows_SkipsLastItem(ids_req, items) ==
    [i \in 1..(Len(items) - 1) |-> [videoId |-> items[i].id]]

BatchRows(ids_req, items) ==
    [i \in 1..Len(items) |-> [videoId |-> items[i].id]]

\* for i, batch in enumerate(chunked(video_ids, 50)): resume the generator;
\* on a yield go on to the call of _get, at its end return rows.
BatFor ==
    /\ bpc = "for"
    /\ LET g == Chunked(video_ids, batch_size, gen_pos, <<>>)
       IN  /\ gen_pos' = g.pos
           /\ IF g.yielded
              THEN /\ bpc' = "get"
                   /\ batch' = g.buf
                   /\ battempt' = 0
                   /\ calls' = Append(calls, g.buf)
                   /\ UNCHANGED details
              ELSE /\ bpc' = "done"
                   /\ details' = [returned |-> TRUE, rows |-> rows]
                   /\ UNCHANGED <<batch, battempt, calls>>
    /\ UNCHANGED <<video_ids, batch_no, rows, row_batch, responses>>
    /\ UNCHANGED <<getVars, colVars, intVars, rowVars, klaVars>>

\* One iteration of _get's loop inside data = _get(url, params), on the
\* outcome o; on a return, the rest of the for body on the items returned.
BatRequest(o, keep) ==
    /\ bpc = "get"
    /\ battempt < max_retries
    /\ LET a == GetAttempt2(o, battempt)
           items == UpstreamItems(batch, keep)
           new == BatchRows(batch, items)
       IN  CASE a.next = "return" ->
                  /\ rows' = rows \o new
                  /\ row_batch' = row_batch \o [i \in 1..Len(new) |-> batch_no + 1]
                  /\ responses' = Append(responses, items)
                  /\ batch_no' = batch_no + 1
                  /\ bpc' = "for"
                  /\ UNCHANGED battempt
             [] a.next = "continue" ->
                  /\ battempt' = battempt + 1
                  /\ UNCHANGED <<rows, row_batch, responses, batch_no, bpc>>
             [] OTHER ->
                  /\ bpc' = "error"
                  /\ UNCHANGED <<rows, row_batch, responses, batch_no, battempt>>
    /\ UNCHANGED <<video_ids, gen_pos, batch, calls, details>>
    /\ UNCHANGED <<getVars, colVars, intVars, rowVars, klaVars>>

\* _get's loop is exhausted: RuntimeError, which get_video_details and main
\* do not catch.
BatExhausted_ReturnsPartialRows ==
    /\ bpc = "get"
    /\ battempt = max_retries
    /\ bpc' = "done"
    /\ details' = [returned |-> TRUE, rows |-> rows]
    /\ UNCHANGED <<video_ids, gen_pos, batch, batch_no, battempt, rows, row_batch,
                   calls, responses>>
    /\ UNCHANGED <<getVars, colVars, intVars, rowVars, klaVars>>

BatExhausted ==
    /\ bpc = "get"
    /\ battempt = max_retries
    /\ bpc' = "error"
    /\ UNCHANGED <<video_ids, gen_pos, batch, batch_no, battempt, rows, row_batch,
                   calls, responses, details>>
    /\ UNCHANGED <<getVars, colVars, intVars, rowVars, klaVars>>

\* ---- to_int ----

\* Bound of the statistic values: strings of at most MaxStrLen characters.
MaxStrLen == 3

Digits == {"0", "1", "2"}
Chars == Digits \cup {"-", "+", " ", "_", ".", "a"}

DigitValue(c) == CASE c = "0" -> 0 [] c = "1" -> 1 [] OTHER -> 2

\* The values st.get(field) can have: None when the key is absent, else the
\* JSON value, a string or an integer number.
StatValues ==
    [present : {FALSE}, kind : {"str"}, s : {<<>>}, n : {0}]
    \cup [present : {TRUE}, kind : {"str"}, s : SeqsUpTo(Chars, MaxStrLen), n : {0}]
    \cup [present : {TRUE}, kind : {"int"}, s : {<<>>}, n : -1..2]

\* str.strip() as int() applies it: without the blanks at both ends.
RECURSIVE Strip(_)
Strip(s) ==
    IF s = <<>> THEN s
    ELSE IF Head(s) = " " THEN Strip(Tail(s))
    ELSE IF s[Len(s)] = " " THEN Strip(SubSeq(s, 1, Len(s) - 1))
    ELSE s

\* The digits of int(): digit ("_"? digit)*, read left to right; -1 when the
\* text is not of that form.
RECURSIVE ParseDigits(_, _, _)
ParseDigits(t, acc, prev) ==
    IF t = <<>> THEN (IF prev = "digit" THEN acc ELSE -1)
    ELSE IF Head(t) \in Digits
         THEN ParseDigits(Tail(t), 10 * acc + DigitValue(Head(t)), "digit")
    ELSE IF Head(t) = "_" /\ prev = "digit"
         THEN ParseDigits(Tail(t), acc, "underscore")
    ELSE -1

\* int(x): the value, or the exception raised.
PyInt(x) ==
    IF ~x.present THEN [raised |-> "TypeError", value |-> 0]
    ELSE IF x.kind = "int" THEN [raised |-> None, value |-> x.n]
    ELSE LET t == Strip(x.s)
             signed == t # <<>> /\ Head(t) \in {"+", "-"}
             magnitude == ParseDigits(IF signed THEN Tail(t) ELSE t, 0, "start")
         IN  IF magnitude < 0 THEN [raised |-> "ValueError", value |-> 0]
             ELSE IF signed /\ Head(t) = "-"
                  THEN [raised |-> None, value |-> 0 - magnitude]
             ELSE [raised |-> None, value |-> magnitude]

\* def to_int(x, default=0): try: return int(x) / except: return default
to_int_CatchesValueErrorOnly(x, default) ==
    LET r == PyInt(x)
    IN  IF r.raised = "ValueError" THEN [raised |-> None, value |-> default] ELSE r

to_int(x, default) ==
    LET r == PyInt(x)
    IN  IF r.raised # None THEN [raised |-> None, value |-> default] ELSE r

\* "viewCount": to_int(st.get("viewCount")), and likewise likeCount and
\* commentCount.
ToIntCall ==
    /\ tpc = "call"
    /\ extracted' = to_int(st, 0)
    /\ tpc' = "done"
    /\ UNCHANGED <<st, field>>
    /\ UNCHANGED <<getVars, colVars, batVars, rowVars, klaVars>>

-----------------------------------------------------------------------------
(* Texts                                                                   *)

\* A text is the sequence of its characters. A value that may be None
\* (what dict.get returns for a missing key or a JSON null):
NoneValue == [none |-> TRUE, s |-> <<>>]
Text(s) == [none |-> FALSE, s |-> s]

\* The characters in use, in code point order.
CodePointOrder ==
    <<" ", "-", "0", "1", "2", "3", "4", "5", "6", "7", "8", "9", "A", "B", "C", "D", "E", "F", "G", "H", "I", "J", "K", "L", "M", "N", "O", "P", "Q", "R", "S", "T", "U", "V", "W", "X", "Y", "Z", "_", "a", "b", "c", "d", "e", "f", "g", "h", "i", "j", "k", "l", "m", "n", "o", "p", "q", "r", "s", "t", "u", "v", "w", "x", "y", "z", "|">>

Ord(c) == CHOOSE i \in 1..Len(CodePointOrder) : CodePointOrder[i] = c

UpperCase == <<"A", "B", "C", "D", "E", "F", "G", "H", "I", "J", "K", "L", "M", "N", "O", "P", "Q", "R", "S", "T", "U", "V", "W", "X", "Y", "Z">>
LowerCase == <<"a", "b", "c", "d", "e", "f", "g", "h", "i", "j", "k", "l", "m", "n", "o", "p", "q", "r", "s", "t", "u", "v", "w", "x", "y", "z">>

LowerOf ==
    [c \in {UpperCase[k] : k \in 1..Len(UpperCase)} |->
        LowerCase[CHOOSE k \in 1..Len(UpperCase) : UpperCase[k] = c]]

\* str.lower()
PyLower(s) ==
    [i \in 1..Len(s) |-> IF s[i] \in DOMAIN LowerOf THEN LowerOf[s[i]] ELSE s[i]]

\* sep.join(parts)
RECURSIVE PyJoin(_, _)
PyJoin(sep, parts) ==
    IF parts = <<>> THEN <<>>
    ELSE IF Len(parts) = 1 THEN parts[1]
    ELSE parts[1] \o sep \o PyJoin(sep, Tail(parts))

\* a < b for str: the first differing character decides, else the length.
RECURSIVE PyLess(_, _)
PyLess(a, b) ==
    IF b = <<>> THEN FALSE
    ELSE IF a = <<>> THEN TRUE
    ELSE IF Head(a) = Head(b) THEN PyLess(Tail(a), Tail(b))
    ELSE Ord(Head(a)) < Ord(Head(b))

\* sorted(tags), as an insertion sort.
PySorted_AsAppended(tags) == tags

RECURSIVE PySorted(_)
PySorted(tags) ==
    IF tags = <<>> THEN <<>>
    ELSE LET x == tags[Len(tags)]
             rest == PySorted(SubSeq(tags, 1, Len(tags) - 1))
             Before(y) == ~PyLess(x, y)
             After(y) == PyLess(x, y)
         IN  SelectSeq(rest, Before) \o <<x>> \o SelectSeq(rest, After)

\* term in text_corpus
Contains(term, corpus) ==
    \E i \in 0..(Len(corpus) - Len(term)) : \A k \in 1..Len(term) : corpus[i + k] = term[k]

\* str(v) of an f-string
PyStr(v) == IF v.none THEN <<"N", "o", "n", "e">> ELSE v.s

-----------------------------------------------------------------------------
(* get_video_details: the record of one item                               *)

\* Bound of the tag lists: at most MaxTags tags.
MaxTags == 2

TagNames == {<<"a", "i">>, <<"f", "u", "n">>}

\* A JSON object under a key: the key is absent, its value is null, or it is
\* a dict; a dict's missing keys read as None.
TagValues ==
    [state : {"absent", "null"}, list : {<<>>}]
    \cup [state : {"list"}, list : SeqsUpTo(TagNames, MaxTags)]

Snippets ==
    [state : {"absent", "null"},
     publishedAt : {NoneValue}, channelId : {NoneValue}, channelTitle : {NoneValue},
     title : {NoneValue}, description : {NoneValue}, categoryId : {NoneValue},
     tags : {[state |-> "absent", list |-> <<>>]}]
    \cup
    [state : {"dict"},
     publishedAt : {NoneValue, Text(<<"2", "0", "2", "4", "-", "0", "5", "-", "0", "1", "T", "1", "0", ":", "0", "0", ":", "0", "0", "Z">>)},
     channelId : {NoneValue, Text(<<"U", "C", "1">>)},
     channelTitle : {NoneValue, Text(<<"S", "t", "u", "d", "i", "o">>)},
     title : {NoneValue, Text(<<"S", "o", "r", "a", " ", "d", "e", "m", "o">>)},
     description : {NoneValue, Text(<<"A", " ", "t", "e", "s", "t">>)},
     categoryId : {NoneValue, Text(<<"2", "8">>)},
     tags : TagValues]

MissingStat == [present |-> FALSE, kind |-> "str", s |-> <<>>, n |-> 0]

RowStats == {MissingStat, [present |-> TRUE, kind |-> "str", s |-> <<"1", "2">>, n |-> 0]}

Statistics ==
    [state : {"absent", "null"},
     viewCount : {MissingStat}, likeCount : {MissingStat}, commentCount : {MissingStat}]
    \cup
    [state : {"dict"}, viewCount : RowStats, likeCount : RowStats, commentCount : RowStats]

ContentDetails ==
    [state : {"absent", "null"}, duration : {NoneValue}]
    \cup [state : {"dict"}, duration : {NoneValue, Text(<<"P", "T", "1", "M">>)}]

Items ==
    [id : {NoneValue, Text(<<"v", "1">>)},
     snippet : Snippets, statistics : Statistics, contentDetails : ContentDetails]

\* {} as the value of each of the three keys
EmptySnippet ==
    [state |-> "dict",
     publishedAt |-> NoneValue, channelId |-> NoneValue, channelTitle |-> NoneValue,
     title |-> NoneValue, description |-> NoneValue, categoryId |-> NoneValue,
     tags |-> [state |-> "absent", list |-> <<>>]]

EmptyStatistics ==
    [state |-> "dict",
     viewCount |-> MissingStat, likeCount |-> MissingStat, commentCount |-> MissingStat]

EmptyContentDetails == [state |-> "dict", duration |-> NoneValue]

\* it.get(key, {}) or {}
GetOrEmpty_WithoutOr(d, empty) == IF d.state = "absent" THEN empty ELSE d

GetOrEmpty(d, empty) == IF d.state \in {"absent", "null"} THEN empty ELSE d

\* tags = sn.get("tags") or []
TagsOrEmpty(t) == IF t.state = "list" THEN t.list ELSE <<>>

\* f"https://www.youtube.com/watch?v={it.get('id')}"
WatchUrl ==
    <<"h", "t", "t", "p", "s", ":", "/", "/", "w", "w", "w", ".", "y", "o", "u", "t", "u", "b", "e", ".", "c", "o", "m", "/", "w", "a", "t", "c", "h", "?", "v", "=">>

NoRow ==
    [videoId |-> NoneValue, publishedAt |-> NoneValue, channelId |-> NoneValue,
     channelTitle |-> NoneValue, title |-> NoneValue, description |-> NoneValue,
     tags |-> <<>>, categoryId |-> NoneValue, duration |-> NoneValue,
     viewCount |-> 0, likeCount |-> 0, commentCount |-> 0, url |-> <<>>]

\* The body of "for it in data.get('items', [])": the record appended for the
\* item, or the exception raised (None.get is an AttributeError).
MakeRow(item) ==
    LET sn == GetOrEmpty(item.snippet, EmptySnippet)
        stats == GetOrEmpty(item.statistics, EmptyStatistics)
        cd == GetOrEmpty(item.contentDetails, EmptyContentDetails)
    IN  IF sn.state = "null" \/ stats.state = "null" \/ cd.state = "null"
        THEN [raised |-> "AttributeError", row |-> NoRow]
        ELSE LET tags == TagsOrEmpty(sn.tags)
             IN  [raised |-> None,
                  row |-> [videoId |-> item.id,
                           publishedAt |-> sn.publishedAt,
                           channelId |-> sn.channelId,
                           channelTitle |-> sn.channelTitle,
                           title |-> sn.title,
                           description |-> sn.description,
                           tags |-> IF tags # <<>> THEN PyJoin(<<"|">>, tags) ELSE <<>>,
                           categoryId |-> sn.categoryId,
                           duration |-> cd.duration,
                           viewCount |-> to_int(stats.viewCount, 0).value,
                           likeCount |-> to_int(stats.likeCount, 0).value,
                           commentCount |-> to_int(stats.commentCount, 0).value,
                           url |-> WatchUrl \o PyStr(item.id)]]

RowAppend ==
    /\ rpc = "item"
    /\ made' = MakeRow(it)
    /\ rpc' = IF made'.raised = None THEN "appended" ELSE "raised"
    /\ UNCHANGED it
    /\ UNCHANGED <<getVars, colVars, batVars, intVars, klaVars>>

-----------------------------------------------------------------------------
(* klasifikasi_konten_dengan_tag                                           *)

\* AI_KEYWORDS (lines 22-27), each term as its sequence of characters.
AI_KEYWORDS ==
    << <<"a", "i", " ", "g", "e", "n", "e", "r", "a", "t", "e", "d">>,
       <<"a", "i", " ", "v", "i", "d", "e", "o">>,
       <<"t", "e", "x", "t", "-", "t", "o", "-", "v", "i", "d", "e", "o">>,
       <<"s", "o", "r", "a">>,
       <<"r", "u", "n", "w", "a", "y", " ", "g", "e", "n", "-", "3">>,
       <<"r", "u", "n", "w", "a", "y", "m", "l">>,
       <<"p", "i", "k", "a", " ", "l", "a", "b", "s">>,
       <<"g", "e", "n", "-", "3">>,
       <<"m", "i", "d", "j", "o", "u", "r", "n", "e", "y">>,
       <<"l", "u", "m", "a", " ", "a", "i">>,
       <<"g", "o", "o", "g", "l", "e", " ", "v", "e", "o">>,
       <<"v", "e", "o", "3">>,
       <<"s", "y", "n", "t", "h", "e", "s", "i", "a">>,
       <<"h", "e", "y", "g", "e", "n">>,
       <<"k", "a", "i", "b", "e", "r">>,
       <<"s", "t", "a", "b", "l", "e", " ", "v", "i", "d", "e", "o", " ", "d", "i", "f", "f", "u", "s", "i", "o", "n">>,
       <<"d", "-", "i", "d">>,
       <<"h", "a", "i", "l", "u", "o">>,
       <<"k", "l", "i", "n", "g">>,
       <<"n", "a", "n", "o", "-", "b", "a", "n", "a", "n", "a">>,
       <<"g", "p", "t">>,
       <<"c", "h", "a", "t", "g", "p", "t">>,
       <<"e", "l", "e", "v", "e", "n", "l", "a", "b", "s">> >>

\* KREATIF_TERMS (lines 30-30), each term as its sequence of characters.
KREATIF_TERMS ==
    << <<"s", "h", "o", "r", "t", " ", "f", "i", "l", "m">>,
       <<"m", "u", "s", "i", "c", " ", "v", "i", "d", "e", "o">>,
       <<"a", "n", "i", "m", "a", "t", "i", "o", "n">>,
       <<"s", "t", "o", "r", "y">>,
       <<"a", "r", "t">>,
       <<"m", "o", "v", "i", "e">>,
       <<"s", "o", "n", "g">>,
       <<"f", "i", "c", "t", "i", "o", "n">>,
       <<"c", "e", "r", "i", "t", "a">>,
       <<"f", "i", "l", "m", " ", "p", "e", "n", "d", "e", "k">>,
       <<"v", "i", "d", "e", "o", " ", "m", "u", "s", "i", "k">> >>

\* EDUKASI_TERMS (lines 31-31), each term as its sequence of characters.
EDUKASI_TERMS ==
    << <<"t", "u", "t", "o", "r", "i", "a", "l">>,
       <<"h", "o", "w", " ", "t", "o">>,
       <<"g", "u", "i", "d", "e">>,
       <<"m", "a", "s", "t", "e", "r", "c", "l", "a", "s", "s">>,
       <<"l", "e", "s", "s", "o", "n">>,
       <<"c", "o", "u", "r", "s", "e">>,
       <<"e", "x", "p", "l", "a", "i", "n", "e", "d">>,
       <<"w", "a", "l", "k", "t", "h", "r", "o", "u", "g", "h">>,
       <<"c", "r", "e", "a", "t", "e">>,
       <<"c", "a", "r", "a", " ", "m", "e", "m", "b", "u", "a", "t">>,
       <<"c", "a", "r", "a", " ", "p", "a", "k", "a", "i">>,
       <<"p", "a", "n", "d", "u", "a", "n">>,
       <<"b", "e", "l", "a", "j", "a", "r">>,
       <<"t", "i", "p", "s">> >>

\* ULASAN_TERMS (lines 32-32), each term as its sequence of characters.
ULASAN_TERMS ==
    << <<"r", "e", "v", "i", "e", "w">>,
       <<"n", "e", "w", "s">>,
       <<"u", "p", "d", "a", "t", "e">>,
       <<"d", "e", "m", "o">>,
       <<"v", "s">>,
       <<"v", "e", "r", "s", "u", "s">>,
       <<"h", "a", "n", "d", "s", "-", "o", "n">>,
       <<"f", "i", "r", "s", "t", " ", "l", "o", "o", "k">>,
       <<"a", "n", "a", "l", "y", "s", "i", "s">>,
       <<"r", "e", "p", "o", "r", "t">>,
       <<"r", "e", "a", "c", "t", "i", "o", "n">>,
       <<"u", "l", "a", "s", "a", "n">>,
       <<"b", "e", "r", "i", "t", "a">> >>

\* EKSPERIMEN_TERMS (lines 33-33), each term as its sequence of characters.
EKSPERIMEN_TERMS ==
    << <<"e", "x", "p", "e", "r", "i", "m", "e", "n", "t">>,
       <<"t", "e", "s", "t">>,
       <<"c", "h", "a", "l", "l", "e", "n", "g", "e">>,
       <<"p", "r", "o", "m", "p", "t">>,
       <<"s", "h", "o", "w", "c", "a", "s", "e">>,
       <<"u", "j", "i", " ", "c", "o", "b", "a">> >>

creative_work == <<"c", "r", "e", "a", "t", "i", "v", "e", "_", "w", "o", "r", "k">>
education_tutorial == <<"e", "d", "u", "c", "a", "t", "i", "o", "n", "_", "t", "u", "t", "o", "r", "i", "a", "l">>
review_news == <<"r", "e", "v", "i", "e", "w", "_", "n", "e", "w", "s">>
experiment == <<"e", "x", "p", "e", "r", "i", "m", "e", "n", "t">>
general_ai_content == <<"g", "e", "n", "e", "r", "a", "l", "_", "a", "i", "_", "c", "o", "n", "t", "e", "n", "t">>
Irrelevant == <<"I", "r", "r", "e", "l", "e", "v", "a", "n", "t">>

\* text_corpus = " ".join([str(row.get("title") or ""),
\*                         str(row.get("description") or "")]).lower()
StrOrEmpty(v) == IF v.none \/ v.s = <<>> THEN <<>> ELSE v.s

text_corpus_WithTags(r) ==
    PyLower(PyJoin(<<" ">>, <<StrOrEmpty(r.title), StrOrEmpty(r.description), r.tags>>))

text_corpus(r) ==
    PyLower(PyJoin(<<" ">>, <<StrOrEmpty(r.title), StrOrEmpty(r.description)>>))

\* any(term in text_corpus for term in terms)
AnyTermIn(terms, corpus) == \E k \in 1..Len(terms) : Contains(terms[k], corpus)

\* if any(...): tags.append(label)
AppendIf(tags, matched, label) == IF matched THEN Append(tags, label) ELSE tags

\* if not tags and is_ai_keyword_present: tags.append('general_ai_content')
GeneralFallback_Never(tags, is_ai_keyword_present) == tags

GeneralFallback_Always(tags, is_ai_keyword_present) ==
    IF is_ai_keyword_present THEN Append(tags, general_ai_content) ELSE tags

GeneralFallback(tags, is_ai_keyword_present) ==
    IF tags = <<>> /\ is_ai_keyword_present THEN Append(tags, general_ai_content) ELSE tags

klasifikasi_konten_dengan_tag(r) ==
    LET corpus == text_corpus(r)
        t1 == AppendIf(<<>>, AnyTermIn(KREATIF_TERMS, corpus), creative_work)
        t2 == AppendIf(t1, AnyTermIn(EDUKASI_TERMS, corpus), education_tutorial)
        t3 == AppendIf(t2, AnyTermIn(ULASAN_TERMS, corpus), review_news)
        t4 == AppendIf(t3, AnyTermIn(EKSPERIMEN_TERMS, corpus), experiment)
        tags == GeneralFallback(t4, AnyTermIn(AI_KEYWORDS, corpus))
    IN  IF tags = <<>> THEN Irrelevant ELSE PyJoin(<<"|">>, PySorted(tags))

\* Bound of the titles: at most MaxFragments fragments, put end to end.
MaxFragments == 2

Fragments ==
    { <<"S", "h", "o", "r", "t">>, <<" ", "F", "i", "l", "m">>, <<"R", "e", "v", "i", "e", "w">>, <<"P", "r", "o", "m", "p", "t">>, <<"S", "o", "r", "a">>, <<"S", "m", "a", "r", "t">> }

ExampleTitle ==
    <<"A", "I", " ", "G", "e", "n", "e", "r", "a", "t", "e", "d", " ", "S", "h", "o", "r", "t", " ", "F", "i", "l", "m", " ", "T", "u", "t", "o", "r", "i", "a", "l">>

Titles ==
    {NoneValue, Text(ExampleTitle)}
    \cup {Text(PyJoin(<<>>, q)) : q \in SeqsUpTo(Fragments, MaxFragments)}

Descriptions == {NoneValue, Text(<<>>), Text(<<"f", "i", "l", "m">>), Text(<<"G", "P", "T", " ", "t", "i", "p", "s">>)}

\* The second row's title when it is not the first row's.
OtherTitles == {Text(<<"S", "o", "r", "a", " ", "R", "e", "v", "i", "e", "w">>), Text(ExampleTitle)}

\* The columns the classifier does not read, in two versions.
OtherColumns ==
    { [tags |-> <<>>, channelTitle |-> NoneValue, viewCount |-> 0],
      [tags |-> <<"t", "u", "t", "o", "r", "i", "a", "l", "|", "s", "o", "r", "a">>,
       channelTitle |-> Text(<<"A", "I", " ", "N", "e", "w", "s">>), viewCount |-> 7] }

DfRow(title, description, other) ==
    [NoRow EXCEPT !.videoId = Text(<<"v", "1">>),
                  !.title = title, !.description = description,
                  !.tags = other.tags, !.channelTitle = other.channelTitle,
                  !.viewCount = other.viewCount,
                  !.url = WatchUrl \o <<"v", "1">>]

\* df["content_tags"] = df.apply(klasifikasi_konten_dengan_tag, axis=1):
\* the call for the next row.
ApplyRow ==
    /\ kpos <= Len(df)
    /\ content_tags' = Append(content_tags, klasifikasi_konten_dengan_tag(df[kpos]))
    /\ kpos' = kpos + 1
    /\ UNCHANGED df
    /\ UNCHANGED <<getVars, colVars, batVars, intVars, rowVars>>

-----------------------------------------------------------------------------
(* Initial states and specifications                                       *)

InitGetIdle ==
    /\ hist = <<>>
    /\ fpc = [s \in Sites |-> "loop"]
    /\ fattempt = [s \in Sites |-> 0]
    /\ requests = [s \in Sites |-> 0]
    /\ sleeps = [s \in Sites |-> <<>>]
    /\ fresult = [s \in Sites |-> NoResult]

InitColIdle ==
    /\ max_results = 0
    /\ found_ids = {}
    /\ next_token = None
    /\ page_token = None
    /\ cpc = "idle"
    /\ cattempt = 0
    /\ output_file = <<>>
    /\ page_items = {}
    /\ last_response = [fetched |-> FALSE, token |-> None]
    /\ last_request = [issued |-> FALSE, found |-> 0, after_response |-> FALSE,
                       prev_token |-> None, page_token |-> None]

InitBatIdle ==
    /\ video_ids = <<>>
    /\ gen_pos = 1
    /\ batch = <<>>
    /\ batch_no = 0
    /\ bpc = "idle"
    /\ battempt = 0
    /\ rows = <<>>
    /\ row_batch = <<>>
    /\ calls = <<>>
    /\ responses = <<>>
    /\ details = [returned |-> FALSE, rows |-> <<>>]

InitIntIdle ==
    /\ st = [present |-> FALSE, kind |-> "str", s |-> <<>>, n |-> 0]
    /\ field = "viewCount"
    /\ tpc = "idle"
    /\ extracted = [raised |-> None, value |-> 0]

InitRowIdle ==
    /\ it = [id |-> NoneValue, snippet |-> EmptySnippet, statistics |-> EmptyStatistics,
             contentDetails |-> EmptyContentDetails]
    /\ rpc = "idle"
    /\ made = [raised |-> None, row |-> NoRow]

InitKlaIdle ==
    /\ df = <<>>
    /\ kpos = 1
    /\ content_tags = <<>>

InitCollector ==
    /\ InitGetIdle /\ InitBatIdle /\ InitIntIdle /\ InitRowIdle /\ InitKlaIdle
    /\ max_results \in 0..MaxTarget
    /\ found_ids = {}
    /\ next_token = None
    /\ page_token = None
    /\ cpc = "while"
    /\ cattempt = 0
    /\ output_file = <<>>
    /\ page_items = {}
    /\ last_response = [fetched |-> FALSE, token |-> None]
    /\ last_request = [issued |-> FALSE, found |-> 0, after_response |-> FALSE,
                       prev_token |-> None, page_token |-> None]

InitGet == InitGetIdle /\ InitColIdle /\ InitBatIdle /\ InitIntIdle /\ InitRowIdle /\ InitKlaIdle

NextGet ==
    \/ \E o \in Outcomes : GetRequest(o)
    \/ GetExhausted

SpecGet == InitGet /\ [][NextGet]_vars

NextCollector ==
    \/ ColWhile
    \/ \E o \in Outcomes : \E data \in PagesWith(o) : ColRequest(o, data)
    \/ ColExhausted
    \/ ColWrite

SpecCollector == InitCollector /\ [][NextCollector]_vars

InitBatcher ==
    /\ InitGetIdle /\ InitColIdle /\ InitIntIdle /\ InitRowIdle /\ InitKlaIdle
    /\ video_ids \in Inputs
    /\ gen_pos = 1
    /\ batch = <<>>
    /\ batch_no = 0
    /\ bpc = "for"
    /\ battempt = 0
    /\ rows = <<>>
    /\ row_batch = <<>>
    /\ calls = <<>>
    /\ responses = <<>>
    /\ details = [returned |-> FALSE, rows |-> <<>>]

NextBatcher ==
    \/ BatFor
    \/ \E o \in Outcomes : \E keep \in (IF o = Response(200) THEN Keeps ELSE {"none"}) :
          BatRequest(o, keep)
    \/ BatExhausted

SpecBatcher == InitBatcher /\ [][NextBatcher]_vars

InitToInt ==
    /\ InitGetIdle /\ InitColIdle /\ InitBatIdle /\ InitRowIdle /\ InitKlaIdle
    /\ st \in StatValues
    /\ field \in {"viewCount", "likeCount", "commentCount"}
    /\ tpc = "call"
    /\ extracted = [raised |-> None, value |-> 0]

NextToInt == ToIntCall

SpecToInt == InitToInt /\ [][NextToInt]_vars

InitRow ==
    /\ InitGetIdle /\ InitColIdle /\ InitBatIdle /\ InitIntIdle /\ InitKlaIdle
    /\ it \in Items
    /\ rpc = "item"
    /\ made = [raised |-> None, row |-> NoRow]

NextRow == RowAppend

SpecRow == InitRow /\ [][NextRow]_vars

\* A DataFrame of two rows: the second has the first row's title and
\* description, or another title and no description.
InitClassify ==
    /\ InitGetIdle /\ InitColIdle /\ InitBatIdle /\ InitIntIdle /\ InitRowIdle
    /\ \E t \in Titles, d \in Descriptions, other \in OtherColumns :
          \E second \in {[title |-> t, description |-> d]}
                         \cup [title : OtherTitles, description : {NoneValue}] :
              df = << DfRow(t, d, [tags |-> <<>>, channelTitle |-> NoneValue, viewCount |-> 0]),
                      DfRow(second.title, second.description, other) >>
    /\ kpos = 1
    /\ content_tags = <<>>

NextClassify == ApplyRow

SpecClassify == InitClassify /\ [][NextClassify]_vars

\* The interpreter runs the next statement: the run does not stop by itself
\* while a step is possible.
FairCollector == SpecCollector /\ WF_vars(NextCollector)

\* Either stage, run on its own.
InitStages == InitCollector \/ InitBatcher

NextStages == NextCollector \/ NextBatcher

SpecStages == InitStages /\ [][NextStages]_vars

-----------------------------------------------------------------------------
(* Claims about _get                                                       *)

RetryableStatuses == {403, 429, 500, 503}

\* An attempt the retry policy calls transient: a retryable status or a
\* network exception.
Transient(o) == o.exc # None \/ o.status \in RetryableStatuses

AllTransient(h) == \A i \in 1..Len(h) : Transient(h[i])

\* C1: one call of _get issues at most 5 requests; a first HTTP 200 at
\* attempt k <= 5 after only transient attempts is returned, with the body of
\* that response and without raising; after 5 transient attempts the call
\* raises the retries-exhausted error, and it raises it in no other state.
C1_RetryBudget ==
    \A s \in Sites :
        /\ requests[s] <= max_retries
        /\ requests[s] = Len(hist)
        /\ ( /\ hist # <<>>
             /\ hist[Len(hist)] = Response(200)
             /\ AllTransient(SubSeq(hist, 1, Len(hist) - 1)) )
           => /\ Len(hist) <= max_retries
              /\ fpc[s] = "returned"
              /\ fresult[s] = Body(Len(hist))
        /\ (Len(hist) = max_retries /\ AllTransient(hist))
           => \/ fpc[s] = "loop" /\ fattempt[s] = max_retries /\ ENABLED GetExhausted
              \/ fpc[s] = "raised" /\ fresult[s] = RuntimeError
        /\ fpc[s] = "raised"
           => /\ fresult[s] = RuntimeError
              /\ Len(hist) = max_retries
              /\ \A i \in 1..Len(hist) : hist[i] # Response(200)

\* C1 witness: 429, 429, 429, 429, 200 has returned on the fifth attempt.
C1_Witness ==
    /\ hist = <<Response(429), Response(429), Response(429), Response(429),
                Response(200)>>
    /\ \A s \in Sites : fpc[s] = "returned" /\ requests[s] = 5

\* C2 (as claimed): a status that is neither 200 nor retryable makes the call
\* raise at once: no sleep is taken for it and the call is over, so no
\* further request follows and the attempt index has not advanced.
C2_UnexpectedStatusRaisesAtOnce ==
    \A s \in Sites :
        ( /\ hist # <<>>
          /\ hist[Len(hist)].exc = None
          /\ hist[Len(hist)].status \notin RetryableStatuses \cup {200} )
        => /\ fpc[s] = "raised"
           /\ sleeps[s] = <<>>
           /\ fattempt[s] = 0

-----------------------------------------------------------------------------
(* Claims about search_and_save_ids                                        *)

Range(q) == {q[i] : i \in 1..Len(q)}

Distinct(q) == Cardinality(Range(q)) = Len(q)

\* The distinct identifiers among the items of the pages fetched.
IdsSeen == page_items \ {NoVideoId}

\* C3: the list written has at most max_results entries, pairwise distinct,
\* each a videoId of an item of some page fetched during the run.
C3_OutputBoundedDistinctSeen ==
    cpc = "done" =>
        /\ Len(output_file) <= max_results
        /\ Distinct(output_file)
        /\ Range(output_file) \subseteq IdsSeen

\* C3 witness: the last page pushed the set above the target and the list
\* written was cut to the target.
C3_Witness ==
    /\ cpc = "done"
    /\ Cardinality(found_ids) > max_results
    /\ Len(output_file) = max_results
    /\ max_results >= 2

\* C4 (as claimed): every run of the collector ends, with its output written
\* or with an error raised.
C4_CollectorTerminates == <>(cpc \in {"done", "error"})

\* C5: a request is issued only with fewer identifiers than the target and,
\* once a page has been fetched, only if the latest page carried a token; and
\* the loop is left for the write only with the target reached or after a
\* page without a token.
C5_FetchOnlyBelowTargetWithToken ==
    /\ last_request.issued =>
          /\ last_request.found < max_results
          /\ last_request.after_response => last_request.prev_token # None
    /\ cpc \in {"get", "error"} =>
          /\ Cardinality(found_ids) < max_results
          /\ last_response.fetched => last_response.token # None
    /\ cpc \in {"write", "done"} =>
          \/ Cardinality(found_ids) >= max_results
          \/ last_response.fetched /\ last_response.token = None

\* C5 witness: a second page was requested, and the run then stopped on a
\* page without a token, below the target.
C5_Witness ==
    /\ cpc = "done"
    /\ last_request.issued /\ last_request.after_response
    /\ last_response.token = None
    /\ Cardinality(found_ids) < max_results

\* C6: on completion the number of identifiers written is
\* min(max_results, number of distinct identifiers seen in the pages fetched).
C6_OutputCount ==
    cpc = "done" => Len(output_file) = Min(max_results, Cardinality(IdsSeen))

\* C6 witness: the upstream was exhausted first, and all the distinct
\* identifiers seen (more than one, from pages with repeats) were written.
C6_Witness ==
    /\ cpc = "done"
    /\ Cardinality(IdsSeen) < max_results
    /\ Len(output_file) = Cardinality(IdsSeen)
    /\ Len(output_file) >= 2
    /\ last_request.after_response

-----------------------------------------------------------------------------
(* Claims about get_video_details, chunked and to_int                      *)

RECURSIVE Concat(_)
Concat(qq) == IF qq = <<>> THEN <<>> ELSE Concat(SubSeq(qq, 1, Len(qq) - 1)) \o qq[Len(qq)]

\* C7: n identifiers make ceil(n/50) calls of _get; the groups requested are
\* contiguous and in order (their concatenation is the input, a prefix of it
\* while the run lasts), all of 50 identifiers but possibly the last, which
\* has from 1 to 50.
C7_BatchPartition ==
    LET n == Len(video_ids)
        sofar == Concat(calls)
    IN  /\ Len(sofar) <= n /\ sofar = SubSeq(video_ids, 1, Len(sofar))
        /\ \A k \in 1..Len(calls) :
              /\ Len(calls[k]) >= 1 /\ Len(calls[k]) <= batch_size
              /\ Len(calls[k]) < batch_size => Len(sofar) = n /\ k = Len(calls)
        /\ Len(calls) <= (n + batch_size - 1) \div batch_size
        /\ bpc = "done" =>
              /\ Len(calls) = (n + batch_size - 1) \div batch_size
              /\ sofar = video_ids

\* C7 witness: 120 identifiers were fetched in three calls of 50, 50 and 20.
C7_Witness ==
    /\ bpc = "done"
    /\ Len(video_ids) = 120
    /\ Len(calls) = 3
    /\ Len(calls[1]) = 50 /\ Len(calls[2]) = 50 /\ Len(calls[3]) = 20

\* The identifiers of the items of the k-th response.
ResponseIds(k) == {responses[k][j].id : j \in 1..Len(responses[k])}

\* C8: every record of a batch is the record of an item of that batch's
\* response, so an identifier requested but not returned gets no record; and
\* the stage raises only when _get has used up its attempts, never over such
\* an absence: after each response it goes on to the next batch.
C8_RecordsOnlyForReturnedItems ==
    /\ Len(row_batch) = Len(rows)
    /\ \A i \in 1..Len(rows) :
          /\ row_batch[i] \in 1..Len(responses)
          /\ rows[i].videoId \in ResponseIds(row_batch[i])
    /\ bpc = "error" => battempt = max_retries
    /\ batch_no = Len(responses)
    /\ bpc = "done" => Len(responses) = Len(calls)

\* C8 witness: a run completed although a response lacked requested
\* identifiers, with records for the others.
C8_Witness ==
    /\ bpc = "done"
    /\ Len(responses) >= 2
    /\ Len(responses[1]) < Len(calls[1])
    /\ Len(responses[1]) > 0
    /\ Len(rows) > Len(responses[1])

Returned == UNION {ResponseIds(k) : k \in 1..Len(responses)}

RowIds == [i \in 1..Len(rows) |-> rows[i].videoId]

OncePerReturnedId ==
    \A x \in Range(video_ids) \cap Returned :
        Cardinality({i \in 1..Len(rows) : rows[i].videoId = x}) = 1

GroupedByBatch == \A i \in 1..(Len(rows) - 1) : row_batch[i] <= row_batch[i + 1]

\* C9 (as claimed): on completion there is exactly one record for each input
\* identifier the upstream returned, none for any other identifier, and the
\* records of batch k come before those of batch k+1.
C9_OneRecordPerSurvivingId ==
    bpc = "done" =>
        /\ OncePerReturnedId
        /\ Range(RowIds) \subseteq Range(video_ids)
        /\ GroupedByBatch

\* C9 (amended): on completion the records are, batch after batch, one per
\* item returned for that batch, each for an input identifier; so for
\* pairwise distinct input identifiers there is exactly one record for each
\* identifier the upstream returned.
C9_OneRecordPerReturnedItem ==
    bpc = "done" =>
        /\ LET items == Concat(responses)
           IN  RowIds = [i \in 1..Len(items) |-> items[i].id]
        /\ Range(RowIds) \subseteq Range(video_ids)
        /\ GroupedByBatch
        /\ Distinct(video_ids) => OncePerReturnedId

\* C9 witness: more than one batch of distinct identifiers, some returned and
\* some not.
C9_Witness ==
    /\ bpc = "done"
    /\ Distinct(video_ids)
    /\ Len(calls) >= 2
    /\ Len(rows) > batch_size
    /\ Len(rows) < Len(video_ids)

\* The texts that denote an integer to int(): blanks around an optional sign
\* and digits, the digits possibly separated by single underscores.
IsIntegerText(s) ==
    \E a, b \in 1..Len(s) :
        /\ a <= b
        /\ \A i \in 1..Len(s) : (i < a \/ i > b) => s[i] = " "
        /\ LET first == IF s[a] \in {"+", "-"} THEN a + 1 ELSE a
           IN  /\ first <= b
               /\ s[first] \in Digits /\ s[b] \in Digits
               /\ \A i \in first..b : s[i] \in Digits \cup {"_"}
               /\ \A i \in first..(b - 1) : ~(s[i] = "_" /\ s[i + 1] = "_")

DenotesInteger(x) == x.present /\ (x.kind = "int" \/ IsIntegerText(x.s))

\* C10: to_int never raises, and for a statistic that is missing or does not
\* denote an integer it returns 0.
C10_ToIntDefaultsToZero ==
    tpc = "done" =>
        /\ extracted.raised = None
        /\ ~DenotesInteger(st) => extracted.value = 0

\* C10 witness: a missing statistic was extracted (as 0).
C10_Witness ==
    /\ tpc = "done"
    /\ ~st.present
    /\ extracted = [raised |-> None, value |-> 0]

-----------------------------------------------------------------------------
(* Further claims about to_int and _get                                    *)

\* C11 (as claimed): the view, like and comment counts of a record are
\* non-negative integers, whatever the statistic values are.
C11_CountsNonNegative ==
    tpc = "done" => extracted.raised = None /\ extracted.value >= 0

\* floor(1.6^k) + 1 for k = 0..4.
SleepTable == <<2, 2, 3, 5, 7>>

\* C17: with only transient attempts so far (and possibly a 200 last), the
\* sleeps taken are those of the table, one after each failed attempt with
\* index k = 0, 1, ..., in order: 2, 2, 3, 5, 7; none comes before the first
\* attempt or after the 200, one follows the fifth failure, and the delays
\* never decrease.
C17_BackoffSleeps ==
    \A s \in Sites :
        LET n == Len(hist)
            ok == n > 0 /\ hist[n] = Response(200)
            failed == IF ok THEN n - 1 ELSE n
        IN  /\ hist = <<>> => sleeps[s] = <<>>
            /\ AllTransient(SubSeq(hist, 1, failed))
               => /\ failed <= Len(SleepTable)
                  /\ sleeps[s] = SubSeq(SleepTable, 1, failed)
                  /\ \A i \in 1..(Len(sleeps[s]) - 1) : sleeps[s][i] <= sleeps[s][i + 1]

\* C17 witness: five transient failures, the retries-exhausted error raised
\* after the fifth sleep.
C17_Witness ==
    /\ Len(hist) = 5 /\ AllTransient(hist)
    /\ \A s \in Sites : fpc[s] = "raised" /\ sleeps[s] = <<2, 2, 3, 5, 7>>

-----------------------------------------------------------------------------
(* Claims about the two stages' loops                                      *)

\* C15: neither loop catches the retries-exhausted error. Once a call of
\* _get has used up its attempts the stage can only be in that call or
\* aborted; aborted, it takes no further step (no further fetch), the
\* collector has written no identifier and the batcher has returned no
\* records, whatever the earlier pages or batches brought.
C15_ExhaustionAborts ==
    /\ cattempt = max_retries
       => cpc \in {"get", "error"} /\ output_file = <<>>
    /\ cpc = "error"
       => cattempt = max_retries /\ output_file = <<>> /\ ~ENABLED NextCollector
    /\ battempt = max_retries
       => bpc \in {"get", "error"} /\ ~details.returned
    /\ bpc = "error"
       => battempt = max_retries /\ ~details.returned /\ ~ENABLED NextBatcher

\* C15 witness: the batcher aborted on its second batch, with the rows of the
\* first in hand and none returned.
C15_Witness ==
    /\ bpc = "error"
    /\ Len(responses) = 1 /\ Len(calls) = 2
    /\ rows # <<>>
    /\ details = [returned |-> FALSE, rows |-> <<>>]

\* Each request issued carried the token of the page fetched before it (none
\* before the first), and so does the request the call in progress sends.
TokenOfLatestPage ==
    /\ last_request.issued =>
          /\ last_request.page_token = last_request.prev_token
          /\ last_request.after_response <=> (last_request.prev_token # None)
    /\ cpc = "get" => page_token = last_response.token

\* C16: the first request carries no continuation token, every later one the
\* token of the latest page fetched, and so do the retries of either; an
\* attempt that failed leaves the token, the identifiers found and the pages
\* seen as they were.
C16_ContinuationOrder ==
    /\ []TokenOfLatestPage
    /\ [][(cpc = "get" /\ cpc' \in {"get", "error"})
           => /\ page_token' = page_token
              /\ next_token' = next_token
              /\ found_ids' = found_ids
              /\ page_items' = page_items
              /\ last_response' = last_response]_vars

\* C16 witness: the request for the second page was retried after a failure,
\* with the token of the first page.
C16_Witness ==
    /\ cpc = "get" /\ cattempt >= 1
    /\ last_request.issued /\ last_request.after_response
    /\ last_request.page_token = "t1"
    /\ found_ids # {}

-----------------------------------------------------------------------------
(* Claims about the record of an item                                      *)

\* The parts of a text between the occurrences of the character c.
RECURSIVE Split(_, _)
Split(s, c) ==
    IF \A i \in 1..Len(s) : s[i] # c THEN <<s>>
    ELSE LET i == CHOOSE k \in 1..Len(s) : s[k] = c /\ \A j \in 1..(k - 1) : s[j] # c
         IN  <<SubSeq(s, 1, i - 1)>> \o Split(SubSeq(s, i + 1, Len(s)), c)

\* The value under a key of one of the item's three objects, None when the
\* object or the key is absent or null.
Leaf(d, empty) == IF d.state = "dict" THEN d ELSE empty

\* C19: whichever of snippet, statistics, contentDetails, their sub-fields
\* and the tag list are absent (or null), a record is appended and nothing
\* is raised; an absent count is 0, an absent tag list the empty text, any
\* other absent field None; a tag list that is present and not empty gives
\* its tags joined by "|", in order.
C19_AbsentFieldsDefault ==
    rpc # "item" /\ rpc # "idle" =>
        LET sn == Leaf(it.snippet, EmptySnippet)
            stat == Leaf(it.statistics, EmptyStatistics)
            cd == Leaf(it.contentDetails, EmptyContentDetails)
            r == made.row
        IN  /\ rpc = "appended" /\ made.raised = None
            /\ r.videoId = it.id
            /\ r.publishedAt = sn.publishedAt /\ r.channelId = sn.channelId
            /\ r.channelTitle = sn.channelTitle /\ r.title = sn.title
            /\ r.description = sn.description /\ r.categoryId = sn.categoryId
            /\ r.duration = cd.duration
            /\ ~stat.viewCount.present => r.viewCount = 0
            /\ ~stat.likeCount.present => r.likeCount = 0
            /\ ~stat.commentCount.present => r.commentCount = 0
            /\ IF sn.tags.state = "list" /\ sn.tags.list # <<>>
               THEN Split(r.tags, "|") = sn.tags.list
               ELSE r.tags = <<>>

\* C19 witness: an item with a null snippet, no statistics and no
\* contentDetails got its record.
C19_Witness ==
    /\ rpc = "appended"
    /\ it.snippet.state = "null"
    /\ it.statistics.state = "absent"
    /\ it.contentDetails.state = "absent"
    /\ made.row.tags = <<>> /\ made.row.viewCount = 0 /\ made.row.title = NoneValue

-----------------------------------------------------------------------------
(* Claims about klasifikasi_konten_dengan_tag                              *)

\* Row i has been classified.
Classified == 1..Len(content_tags)

\* Which keyword lists have a term in the corpus of row i.
RowMatches(i) ==
    LET corpus == text_corpus(df[i])
    IN  [kreatif |-> AnyTermIn(KREATIF_TERMS, corpus),
         edukasi |-> AnyTermIn(EDUKASI_TERMS, corpus),
         ulasan |-> AnyTermIn(ULASAN_TERMS, corpus),
         eksperimen |-> AnyTermIn(EKSPERIMEN_TERMS, corpus),
         ai |-> AnyTermIn(AI_KEYWORDS, corpus)]

AnyCategory(m) == m.kreatif \/ m.edukasi \/ m.ulasan \/ m.eksperimen

\* The labels in the output for row i.
LabelsOf(i) == Range(Split(content_tags[i], "|"))

\* C12: the output has Irrelevant in it exactly when no category keyword
\* list and no generic AI keyword matches the corpus, and then it is the
\* whole output.
C12_IrrelevantIffNothingMatches ==
    \A i \in Classified :
        LET labels == LabelsOf(i)
            m == RowMatches(i)
        IN  /\ Irrelevant \in labels <=> (~AnyCategory(m) /\ ~m.ai)
            /\ Irrelevant \in labels => content_tags[i] = Irrelevant

\* C12 witness: the title "Short" alone, which matches nothing, got
\* Irrelevant, and the other row did not.
C12_Witness ==
    /\ Len(content_tags) = 2
    /\ df[1].title = Text(<<"S", "h", "o", "r", "t">>) /\ df[1].description = NoneValue
    /\ content_tags[1] = Irrelevant
    /\ content_tags[2] # Irrelevant

\* The labels of the category lists that match (m), in ascending order.
ExpectedLabels(m) ==
    LET Matching(label) ==
            \/ label = creative_work /\ m.kreatif
            \/ label = education_tutorial /\ m.edukasi
            \/ label = experiment /\ m.eksperimen
            \/ label = review_news /\ m.ulasan
    IN  SelectSeq(<<creative_work, education_tutorial, experiment, review_news>>, Matching)

\* C13: when a category list matches, the output is the labels of the
\* matching lists, each once, in the order creative_work,
\* education_tutorial, experiment, review_news, joined by "|"; the title
\* "AI Generated Short Film Tutorial" alone gives
\* "creative_work|education_tutorial".
C13_SortedCategoryLabels ==
    \A i \in Classified :
        /\ LET expected == ExpectedLabels(RowMatches(i))
           IN  expected # <<>> => content_tags[i] = PyJoin(<<"|">>, expected)
        /\ ( /\ df[i].title = Text(ExampleTitle)
             /\ df[i].description \in {NoneValue, Text(<<>>)} )
           => content_tags[i] =
                <<"c", "r", "e", "a", "t", "i", "v", "e", "_", "w", "o", "r", "k", "|", "e", "d", "u", "c", "a", "t", "i", "o", "n", "_", "t", "u", "t", "o", "r", "i", "a", "l">>

\* C13 witness: review_news was appended before experiment and comes after
\* it in the output; and the example title was classified as claimed.
C13_Witness ==
    /\ Len(content_tags) = 2
    /\ df[1].title = Text(<<"R", "e", "v", "i", "e", "w", "P", "r", "o", "m", "p", "t">>)
    /\ df[1].description = NoneValue
    /\ content_tags[1] = <<"e", "x", "p", "e", "r", "i", "m", "e", "n", "t", "|", "r", "e", "v", "i", "e", "w", "_", "n", "e", "w", "s">>
    /\ df[2].title = Text(ExampleTitle)
    /\ content_tags[2] =
          <<"c", "r", "e", "a", "t", "i", "v", "e", "_", "w", "o", "r", "k", "|", "e", "d", "u", "c", "a", "t", "i", "o", "n", "_", "t", "u", "t", "o", "r", "i", "a", "l">>

\* C14: two rows with the same title and the same description get the same
\* output, whatever their other columns; and a call leaves the rows as they
\* were.
C14_FunctionOfTitleAndDescription ==
    /\ [](\A i, j \in Classified :
            (df[i].title = df[j].title /\ df[i].description = df[j].description)
            => content_tags[i] = content_tags[j])
    /\ [][df' = df]_vars

\* C14 witness: two rows that agree on title and description and differ in
\* tags, channel title and view count were classified, not as Irrelevant.
C14_Witness ==
    /\ Len(content_tags) = 2
    /\ df[1].title = df[2].title /\ df[1].description = df[2].description
    /\ df[1].tags # df[2].tags /\ df[1].viewCount # df[2].viewCount
    /\ content_tags[1] = content_tags[2]
    /\ content_tags[1] = review_news

\* C18: general_ai_content is in the output exactly when no category list
\* matches and a generic AI keyword does; it then stands alone, never next
\* to a category label; and two rows with the same matching categories, at
\* least one, get the same output whether or not a generic keyword matches.
C18_GeneralOnlyAsFallback ==
    LET m == [i \in Classified |-> RowMatches(i)]
        cats == [i \in Classified |-> Range(ExpectedLabels(m[i]))]
    IN  /\ \A i \in Classified :
              LET labels == LabelsOf(i)
              IN  /\ general_ai_content \in labels <=> (cats[i] = {} /\ m[i].ai)
                  /\ general_ai_content \in labels => labels = {general_ai_content}
                  /\ cats[i] # {} => labels = cats[i]
        /\ \A i, j \in Classified :
              (cats[i] # {} /\ cats[i] = cats[j]) => content_tags[i] = content_tags[j]

\* C18 witness: "Review" and "Sora Review" got the same output, and differ
\* in the generic keyword.
C18_Witness ==
    /\ Len(content_tags) = 2
    /\ df[1].title = Text(<<"R", "e", "v", "i", "e", "w">>) /\ df[1].description = NoneValue
    /\ df[2].title = Text(<<"S", "o", "r", "a", " ", "R", "e", "v", "i", "e", "w">>)
    /\ ~RowMatches(1).ai /\ RowMatches(2).ai
    /\ content_tags[1] = review_news /\ content_tags[2] = review_news

=============================================================================
